---- MODULE Spec2Model ----
(***************************************************************************)
(* Ride-booking analytics service (BandBurro/data-analytics-uber).         *)
(*                                                                         *)
(* Two deployments answer the same requests:                               *)
(*   file  - src/src/api/main.py: aggregates run in DuckDB over the CSV    *)
(*           file, list and lookup run over the pandas cache df_cache;     *)
(*   store - src/src/api/main_db.py: every request is SQL over the table   *)
(*           uber_bookings, filled by src/src/etl/load_csv_to_postgres.py. *)
(*                                                                         *)
(* Text is modelled as a sequence of one-character strings, so that the    *)
(* quoting of identifiers (REPLACE(x, '"', ''), f'"{id}"') is computed.    *)
(* An optional parameter is a sequence of length at most one.              *)
(***************************************************************************)
EXTENDS Integers, Sequences, FiniteSets, TLC

VARIABLES csv, df_cache, table, variant, phase, req, resp, executed,
          reachable, inserted, conns

vars == <<csv, df_cache, table, variant, phase, req, resp, executed,
          reachable, inserted, conns>>

(***************************************************************************)
(* Bounds of the model.                                                    *)
(***************************************************************************)
MaxRows == 3
MaxRequests == 2
MaxLoadRows == 2

(***************************************************************************)
(* Text and quoting.                                                       *)
(***************************************************************************)
Quote == "\""

Null == "<null>"

\* f'"{booking_id}"' : the identifier wrapped in one pair of quote characters
Wrap(s) == <<Quote>> \o s \o <<Quote>>

\* REPLACE(x, '"', '') and str.replace('"', "") : every quote character removed
Replace(s) == SelectSeq(s, LAMBDA c : c # Quote)

RECURSIVE SeqSum(_)
SeqSum(s) == IF s = <<>> THEN 0 ELSE Head(s) + SeqSum(Tail(s))

Min(a, b) == IF a < b THEN a ELSE b

Range(s) == {s[i] : i \in DOMAIN s}

\* DataFrame.head(n), LIMIT n
Take(s, n) == SubSeq(s, 1, Min(n, Len(s)))

(***************************************************************************)
(* The record sets.  A row of the CSV file has the seven columns of the    *)
(* data set; "Booking ID" and "Customer ID" are wrapped in quote           *)
(* characters in the file, and an unrecorded payment is an empty field.    *)
(* Rows are the four rows of the test fixture (tests/test_api.py           *)
(* SAMPLE_ROWS) and two more: booking B1 emitted again with another        *)
(* status, and an unpaid booking of customer C1 in another month.          *)
(***************************************************************************)
B1 == <<"B", "1">>
B2 == <<"B", "2">>
B3 == <<"B", "3">>
B4 == <<"B", "4">>
B5 == <<"B", "5">>
Nope == <<"N", "O", "P", "E">>
C1 == <<"C", "1">>
C2 == <<"C", "2">>
C3 == <<"C", "3">>

Day(y, m, d) == [y |-> y, m |-> m, d |-> d]
Clock(h, mi) == [h |-> h, mi |-> mi]
NullDate == Day(0, 0, 0)
NullTime == Clock(-1, -1)

CsvRow(date, time, bid, status, cid, vehicle, pay) ==
  [date |-> date, time |-> time, booking_id |-> Wrap(bid),
   booking_status |-> status, customer_id |-> Wrap(cid),
   vehicle_type |-> vehicle, payment_method |-> pay]

SAMPLE_ROWS ==
  { CsvRow(Day(2025, 9, 1), Clock(8, 15), B1, "Completed", C1, "Sedan", "Card"),
    CsvRow(Day(2025, 9, 1), Clock(9, 45), B2, "Cancelled", C2, "SUV", "Cash"),
    CsvRow(Day(2025, 9, 2), Clock(8, 30), B3, "Completed", C1, "Sedan", "Card"),
    CsvRow(Day(2025, 9, 3), Clock(20, 0), B4, "Completed", C3, "Bike", "") }

ExtraRows ==
  { CsvRow(Day(2025, 9, 1), Clock(8, 15), B1, "Cancelled", C1, "Sedan", "Card"),
    CsvRow(Day(2025, 10, 5), Clock(9, 45), B5, "Completed", C1, "SUV", "") }

RowPool == SAMPLE_ROWS \cup ExtraRows

RecordSets == UNION {[1..n -> RowPool] : n \in 0..MaxRows}

(***************************************************************************)
(* Reading the file.                                                       *)
(***************************************************************************)
NaN == "<nan>"

\* read_csv_auto(CSV_PATH, header=True): an empty field is NULL
DuckRow(r) == [r EXCEPT !.payment_method = IF @ = "" THEN Null ELSE @]
read_csv_auto(file) == [i \in DOMAIN file |-> DuckRow(file[i])]

\* read_csv_auto infers the column types from the data rows; a file with a
\* header and no row has only VARCHAR columns, on which EXTRACT and strftime
\* do not bind.
ColumnsTyped(file) == file # <<>>

\* pd.read_csv(CSV_PATH): an empty field is NaN
PandasRow(r) == [r EXCEPT !.payment_method = IF @ = "" THEN NaN ELSE @]
read_csv(file) == [i \in DOMAIN file |-> PandasRow(file[i])]

\* the loop "if pd.isna(value): booking[key] = None"
Serialize(r) == [r EXCEPT !.payment_method = IF @ = NaN THEN Null ELSE @]

(***************************************************************************)
(* The bulk load into the table (load_csv_to_postgres.py).                 *)
(***************************************************************************)
normalize_row(r) ==
  [r EXCEPT !.booking_id = Replace(@), !.customer_id = Replace(@),
            !.payment_method = IF @ = NaN THEN "" ELSE @]
normalize_dataframe(df) == [i \in DOMAIN df |-> normalize_row(df[i])]

\* INSERT with no ON CONFLICT clause and no unique index: every row is added
insert_rows(tbl, rows) == tbl \o rows

\* INSERT ... ON CONFLICT (booking_id) DO NOTHING, row by row
RECURSIVE upsert_rows(_, _)
upsert_rows(tbl, rows) ==
  IF rows = <<>> THEN tbl
  ELSE LET r == Head(rows)
           hit == \E k \in DOMAIN tbl : tbl[k].booking_id = r.booking_id
       IN upsert_rows(IF hit THEN tbl ELSE Append(tbl, r), Tail(rows))

\* inserted += res.rowcount: the rows the statement added
RECURSIVE rowcount(_, _)
rowcount(tbl, rows) ==
  IF rows = <<>> THEN 0
  ELSE LET r == Head(rows)
           hit == \E k \in DOMAIN tbl : tbl[k].booking_id = r.booking_id
       IN IF hit THEN rowcount(tbl, Tail(rows))
          ELSE 1 + rowcount(Append(tbl, r), Tail(rows))

(***************************************************************************)
(* SQL, as far as the queries use it.  A relation is a sequence of rows.   *)
(***************************************************************************)
\* COUNT(*) in place of COUNT(DISTINCT expr)
CountAll(values) == Len(values)

\* COUNT(DISTINCT expr), values being expr over the rows of a group
CountDistinct(values) == Cardinality(Range(values))

Perms(S) ==
  {f \in [1..Cardinality(S) -> S] : \A x \in S : \E i \in DOMAIN f : f[i] = x}

\* the rows of a result with the value they are ordered by
ByBookings(S) == {[key |-> g.bookings, row |-> g] : g \in S}
ByUniqueBookings(S) == {[key |-> g.unique_bookings, row |-> g] : g \in S}
ByTotalBookings(S) == {[key |-> g.total_bookings, row |-> g] : g \in S}
ByBookingsForMethod(S) == {[key |-> g.bookings_for_method, row |-> g] : g \in S}
ByHour(S) == {[key |-> g.hour, row |-> g] : g \in S}
ByWeekday(S) == {[key |-> g.weekday_num, row |-> g] : g \in S}

\* rows in any order
Unordered(keyed) == {[i \in DOMAIN f |-> f[i].row] : f \in Perms(keyed)}

\* ORDER BY key DESC: the engine may put rows of equal key in any order
OrderByDesc(keyed) ==
  {[i \in DOMAIN f |-> f[i].row]
     : f \in {p \in Perms(keyed) : \A i \in 1..(Len(p) - 1) : p[i].key >= p[i + 1].key}}

\* ORDER BY key (ascending)
OrderByAsc(keyed) ==
  {[i \in DOMAIN f |-> f[i].row]
     : f \in {p \in Perms(keyed) : \A i \in 1..(Len(p) - 1) : p[i].key <= p[i + 1].key}}

\* the file as the queries of main.py see it: "Booking ID" and "Customer ID"
\* are only ever read through REPLACE(..., '"', '')
FileView(file) ==
  LET v == read_csv_auto(file)
  IN [i \in DOMAIN v |->
        [v[i] EXCEPT !.booking_id = Replace(@), !.customer_id = Replace(@)]]

\* EXTRACT(hour FROM Time)
Hour(r) == r.time.h

\* EXTRACT(dow FROM Date): 0 = Sunday .. 6 = Saturday
MonthShift == <<0, 3, 2, 5, 0, 3, 5, 1, 4, 6, 2, 4>>
Dow(date) ==
  LET y == IF date.m < 3 THEN date.y - 1 ELSE date.y
  IN (y + (y \div 4) - (y \div 100) + (y \div 400) + MonthShift[date.m] + date.d) % 7

WeekdayName(n) ==
  <<"Sunday", "Monday", "Tuesday", "Wednesday", "Thursday", "Friday", "Saturday">>[n + 1]

\* strftime(Date, '%Y-%m') / TO_CHAR(date, 'YYYY-MM'): the year and the month;
\* the order of the strings is the order of year * 100 + month
YearMonth(date) == [y |-> date.y, m |-> date.m]
MonthKey(ym) == ym.y * 100 + ym.m
ByMonth(S) == {[key |-> MonthKey(g.month), row |-> g] : g \in S}

\* COUNT("Booking ID"): the rows of a group
RawRows(rows) == Len(rows)

\* COUNT(DISTINCT booking_id) and COUNT(DISTINCT customer_id) of a group
Bookings(rows) == CountDistinct([i \in DOMAIN rows |-> rows[i].booking_id])
Customers(rows) == CountDistinct([i \in DOMAIN rows |-> rows[i].customer_id])

(***************************************************************************)
(* The queries of the analytics endpoints over a relation rel.  Each       *)
(* yields the set of row orders the engine may return.                     *)
(***************************************************************************)
StatusBreakdownQuery(rel) ==
  OrderByDesc(ByBookings(
    {[booking_status |-> s,
      bookings |-> Bookings(SelectSeq(rel, LAMBDA r : r.booking_status = s))]
       : s \in {rel[i].booking_status : i \in DOMAIN rel}}))

HourGroups(rel) ==
  LET timed == SelectSeq(rel, LAMBDA r : r.time # NullTime)
  IN {[hour |-> h,
       unique_bookings |-> Bookings(SelectSeq(timed, LAMBDA r : Hour(r) = h))]
        : h \in {Hour(timed[i]) : i \in DOMAIN timed}}

BookingsPerHourQuery(rel) == OrderByAsc(ByHour(HourGroups(rel)))

BookingsPerWeekdayQuery(rel) ==
  LET dated == SelectSeq(rel, LAMBDA r : r.date # NullDate)
  IN OrderByAsc(ByWeekday(
       {[weekday_num |-> w, weekday_name |-> WeekdayName(w),
         unique_bookings |-> Bookings(SelectSeq(dated, LAMBDA r : Dow(r.date) = w))]
          : w \in {Dow(dated[i].date) : i \in DOMAIN dated}}))

BookingsPerMonthQuery(rel) ==
  LET dated == SelectSeq(rel, LAMBDA r : r.date # NullDate)
  IN OrderByAsc(ByMonth(
       {[month |-> ym,
         bookings |-> Bookings(SelectSeq(dated, LAMBDA r : YearMonth(r.date) = ym))]
          : ym \in {YearMonth(dated[i].date) : i \in DOMAIN dated}}))

PeakHoursQuery(rel, limit) ==
  {Take(o, limit) : o \in OrderByDesc(ByUniqueBookings(HourGroups(rel)))}

VehicleTypeQuery(rel) ==
  OrderByDesc(ByTotalBookings(
    {[vehicle_type |-> v,
      total_bookings |-> Bookings(SelectSeq(rel, LAMBDA r : r.vehicle_type = v)),
      unique_customers |-> Customers(SelectSeq(rel, LAMBDA r : r.vehicle_type = v))]
       : v \in {rel[i].vehicle_type : i \in DOMAIN rel}}))

\* WHERE payment_method IS NOT NULL AND payment_method <> ''
Recorded(r) == r.payment_method # Null /\ r.payment_method # ""

PaymentMethodQuery(rel) ==
  LET paid == SelectSeq(rel, Recorded)
  IN OrderByDesc(ByTotalBookings(
       {[payment_method |-> p,
         total_bookings |-> Bookings(SelectSeq(paid, LAMBDA r : r.payment_method = p))]
          : p \in {paid[i].payment_method : i \in DOMAIN paid}}))

CustomerGroups(rel) ==
  {[customer_id |-> c,
    total_bookings |-> Bookings(SelectSeq(rel, LAMBDA r : r.customer_id = c))]
     : c \in {rel[i].customer_id : i \in DOMAIN rel}}

\* ... ORDER BY total_bookings DESC LIMIT limit
TopCustomersQuery(rel, limit) ==
  {Take(o, limit) : o \in OrderByDesc(ByTotalBookings(CustomerGroups(rel)))}

\* the rows of customer t by payment method: JOIN ... GROUP BY t.customer_id,
\* payment_method ORDER BY bookings_for_method DESC, no WHERE on the method
PaymentsOfCustomer(rel, t) ==
  LET mine == SelectSeq(rel, LAMBDA r : r.customer_id = t)
  IN OrderByDesc(ByBookingsForMethod(
       {[customer_id |-> t, payment_method |-> p,
         bookings_for_method |->
           Bookings(SelectSeq(mine, LAMBDA r : r.payment_method = p))]
          : p \in {mine[i].payment_method : i \in DOMAIN mine}}))

\* WITH top_customer AS (... LIMIT 1) SELECT ... JOIN top_customer
TopCustomerPaymentQuery(rel) ==
  UNION {IF top = <<>> THEN {<<>>} ELSE PaymentsOfCustomer(rel, top[1].customer_id)
           : top \in TopCustomersQuery(rel, 1)}

(***************************************************************************)
(* Requests and responses.                                                 *)
(***************************************************************************)
PEAK_MIN == 1
PEAK_MAX == 24
PEAK_DEFAULT == 5
TOP_MIN == 1
TOP_MAX == 100
TOP_DEFAULT == 10
LIST_MIN == 1
LIST_MAX == 1000
LIST_DEFAULT == 100

Given(S) == {<<x>> : x \in S}
Optional(S) == {<<>>} \cup Given(S)

\* the limits a caller sends: none, and values around and inside the bounds
LimitInputs(lo, hi) == Optional({lo - 1, lo, lo + 1, hi, hi + 1})

StatusInputs == Optional({"Completed", "Cancelled"})
VehicleInputs == Optional({"SUV"})
CustomerInputs == Optional({C1})
IdInputs == {B1, Wrap(B1), B5, Nope}

NoReq == [op |-> "none"]
NoResp == [code |-> 0, body |-> <<>>]

Request(op) ==
  [op |-> op, limit |-> <<>>, status |-> <<>>, vehicle_type |-> <<>>,
   customer_id |-> <<>>, booking_id |-> <<>>]

Ok(body) == [code |-> 200, body |-> body]
ListOk(body, total) ==
  [code |-> 200, body |-> body, total_found |-> total, returned |-> Len(body)]
\* HTTPException(404, "Booking not found")
NotFound == [code |-> 404, body |-> <<>>]
\* a parameter outside Query(ge=, le=): the framework answers 422 and the
\* handler is not called
Rejected == [code |-> 422, body |-> <<>>]
\* an exception that leaves the handler, HTTPException(500, ...)
Failed == [code |-> 500, body |-> <<>>]

\* no validation: every limit reaches the handler
AnyLimit(limit, lo, hi) == TRUE

\* Query(default, ge=lo, le=hi)
ValidLimit(limit, lo, hi) == limit = <<>> \/ (lo <= limit[1] /\ limit[1] <= hi)
EffectiveLimit(limit, default) == IF limit = <<>> THEN default ELSE limit[1]

\* "if status:" -- a parameter that is absent or empty does not filter
Supplied(param, empty) == param # <<>> /\ param[1] # empty

\* [Model(**row) for row in ...] with payment_method: str
Validates(row) == row.payment_method # Null

Answer(r, q, a) ==
  /\ req' = r
  /\ executed' = q
  /\ resp' = a
  /\ UNCHANGED <<csv, df_cache, table, variant, phase, reachable, inserted, conns>>

\* the answers to a request whose query has the result set results
Answers(results) == {Ok(b) : b \in results}

(***************************************************************************)
(* The file-backed service (main.py).                                      *)
(***************************************************************************)
\* The model follows one exchange at a time: a request is answered, the
\* client takes the answer (receive), and only then the next step is taken.
\* No handler writes the state of the service, so the exchanges taken one by
\* one show every answer the service can give.
Idle == req = NoReq

receive ==
  /\ ~Idle
  /\ req' = NoReq /\ resp' = NoResp /\ executed' = <<>>
  /\ UNCHANGED <<csv, df_cache, table, variant, phase, reachable, inserted, conns>>

FileServing == variant = "file" /\ phase = "serving" /\ Idle

\* load_df() skipped over when it raises
lifespan_startup_anyway ==
  /\ variant = "file" /\ phase = "init"
  /\ df_cache' = IF reachable THEN <<read_csv(csv)>> ELSE df_cache
  /\ phase' = "serving"
  /\ UNCHANGED <<csv, table, variant, req, resp, executed, reachable, inserted, conns>>

\* lifespan, startup: load_df(); pd.read_csv raises when the file cannot be
\* read, the exception leaves lifespan and the application does not start
lifespan_startup ==
  /\ variant = "file" /\ phase = "init"
  /\ IF reachable
     THEN df_cache' = <<read_csv(csv)>> /\ phase' = "serving"
     ELSE df_cache' = df_cache /\ phase' = "failed"
  /\ UNCHANGED <<csv, table, variant, req, resp, executed, reachable, inserted, conns>>

root ==
  /\ FileServing
  /\ Answer(Request("root"), <<>>,
            Ok(<<[status |-> "ok",
                  total_bookings |-> IF df_cache = <<>> THEN 0 ELSE Len(df_cache[1])]>>))

get_booking_status_breakdown ==
  /\ FileServing
  /\ \E a \in Answers(StatusBreakdownQuery(FileView(csv))) :
       Answer(Request("booking-status-breakdown"), <<[limit |-> <<>>]>>, a)

get_bookings_per_hour ==
  /\ FileServing
  /\ \E a \in IF ColumnsTyped(csv)
              THEN Answers(BookingsPerHourQuery(FileView(csv)))
              ELSE {Failed} :
       Answer(Request("bookings-per-hour"), <<[limit |-> <<>>]>>, a)

get_bookings_per_weekday ==
  /\ FileServing
  /\ \E a \in IF ColumnsTyped(csv)
              THEN Answers(BookingsPerWeekdayQuery(FileView(csv)))
              ELSE {Failed} :
       Answer(Request("bookings-per-weekday"), <<[limit |-> <<>>]>>, a)

get_bookings_per_month ==
  /\ FileServing
  /\ \E a \in IF ColumnsTyped(csv)
              THEN Answers(BookingsPerMonthQuery(FileView(csv)))
              ELSE {Failed} :
       Answer(Request("bookings-per-month"), <<[limit |-> <<>>]>>, a)

get_peak_hours ==
  /\ FileServing
  /\ \E limit \in LimitInputs(PEAK_MIN, PEAK_MAX) :
       LET r == [Request("peak-hours") EXCEPT !.limit = limit]
           n == EffectiveLimit(limit, PEAK_DEFAULT)
       IN IF ~ValidLimit(limit, PEAK_MIN, PEAK_MAX)
          THEN Answer(r, <<>>, Rejected)
          ELSE \E a \in IF ColumnsTyped(csv)
                        THEN Answers(PeakHoursQuery(FileView(csv), n))
                        ELSE {Failed} :
                 Answer(r, <<[limit |-> <<n>>]>>, a)

get_vehicle_type_stats ==
  /\ FileServing
  /\ \E a \in Answers(VehicleTypeQuery(FileView(csv))) :
       Answer(Request("vehicle-types"), <<[limit |-> <<>>]>>, a)

get_payment_method_stats ==
  /\ FileServing
  /\ \E a \in Answers(PaymentMethodQuery(FileView(csv))) :
       Answer(Request("payment-methods"), <<[limit |-> <<>>]>>, a)

get_top_customers ==
  /\ FileServing
  /\ \E limit \in LimitInputs(TOP_MIN, TOP_MAX) :
       LET r == [Request("top-customers") EXCEPT !.limit = limit]
           n == EffectiveLimit(limit, TOP_DEFAULT)
       IN IF ~ValidLimit(limit, TOP_MIN, TOP_MAX)
          THEN Answer(r, <<>>, Rejected)
          ELSE \E a \in Answers(TopCustomersQuery(FileView(csv), n)) :
                 Answer(r, <<[limit |-> <<n>>]>>, a)

\* [CustomerPaymentMethod(**row) ...]: a row that does not validate raises
ShapePaymentRows(rows) ==
  IF \A i \in DOMAIN rows : Validates(rows[i]) THEN Ok(rows) ELSE Failed

get_top_customer_payment_methods ==
  /\ FileServing
  /\ \E rows \in TopCustomerPaymentQuery(FileView(csv)) :
       Answer(Request("top-customer-payment-methods"), <<[limit |-> <<>>]>>,
              ShapePaymentRows(rows))

\* the status filter left out
FileFilterNoStatus(df, status, vehicle_type, customer_id) ==
  LET f2 == IF vehicle_type # <<>>
            THEN SelectSeq(df, LAMBDA r : r.vehicle_type = vehicle_type[1]) ELSE df
  IN IF customer_id # <<>>
     THEN SelectSeq(f2, LAMBDA r : r.customer_id = Wrap(customer_id[1])) ELSE f2

\* the three filters of get_bookings over the cached frame
FileFilter(df, status, vehicle_type, customer_id) ==
  LET f1 == IF Supplied(status, "")
            THEN SelectSeq(df, LAMBDA r : r.booking_status = status[1]) ELSE df
      f2 == IF Supplied(vehicle_type, "")
            THEN SelectSeq(f1, LAMBDA r : r.vehicle_type = vehicle_type[1]) ELSE f1
  IN IF Supplied(customer_id, <<>>)
     THEN SelectSeq(f2, LAMBDA r : r.customer_id = Wrap(customer_id[1])) ELSE f2

SerializeAll(rows) == [i \in DOMAIN rows |-> Serialize(rows[i])]

get_bookings ==
  /\ FileServing
  /\ \E limit \in LimitInputs(LIST_MIN, LIST_MAX), status \in StatusInputs,
        vehicle_type \in VehicleInputs, customer_id \in CustomerInputs :
       LET r == [Request("bookings") EXCEPT !.limit = limit, !.status = status,
                   !.vehicle_type = vehicle_type, !.customer_id = customer_id]
           n == EffectiveLimit(limit, LIST_DEFAULT)
       IN IF ~ValidLimit(limit, LIST_MIN, LIST_MAX)
          THEN Answer(r, <<>>, Rejected)
          ELSE IF df_cache = <<>>
          THEN Answer(r, <<>>, Failed)
          ELSE LET filtered_df == FileFilter(df_cache[1], status, vehicle_type, customer_id)
               IN Answer(r, <<[limit |-> <<n>>]>>,
                         ListOk(SerializeAll(Take(filtered_df, n)), Len(filtered_df)))

\* the last match in place of the first
FileLookupLast(df, booking_id) ==
  LET booking == SelectSeq(df, LAMBDA r : r.booking_id = Wrap(booking_id))
  IN IF booking = <<>> THEN NotFound ELSE Ok(<<Serialize(booking[Len(booking)])>>)

\* df_cache[df_cache["Booking ID"] == f'"{booking_id}"'], then records[0]
FileLookup(df, booking_id) ==
  LET booking == SelectSeq(df, LAMBDA r : r.booking_id = Wrap(booking_id))
  IN IF booking = <<>> THEN NotFound ELSE Ok(<<Serialize(booking[1])>>)

get_booking_by_id ==
  /\ FileServing
  /\ \E booking_id \in IdInputs :
       LET r == [Request("booking") EXCEPT !.booking_id = <<booking_id>>]
       IN IF df_cache = <<>>
          THEN Answer(r, <<>>, Failed)
          ELSE Answer(r, <<[limit |-> <<>>]>>, FileLookup(df_cache[1], booking_id))

\* the frame written with its missing values spelled out (na_rep)
to_csv_na_rep(df) == df

\* df_cache.to_csv(CSV_PATH, index=False): NaN is written as an empty field
to_csv(df) == [i \in DOMAIN df |-> [df[i] EXCEPT !.payment_method = IF @ = NaN THEN "" ELSE @]]

\* lifespan, shutdown: save_df()
lifespan_shutdown ==
  /\ FileServing
  /\ csv' = IF df_cache # <<>> THEN to_csv(df_cache[1]) ELSE csv
  /\ phase' = "stopped"
  /\ UNCHANGED <<df_cache, table, variant, req, resp, executed, reachable, inserted, conns>>

(***************************************************************************)
(* The bulk load, run as a program (load_csv_to_postgres.py main).         *)
(***************************************************************************)
etl_main ==
  /\ variant = "store" /\ req = NoReq /\ reachable
  /\ LET rows == normalize_dataframe(read_csv(csv))
     IN /\ table' = upsert_rows(table, rows)
        /\ inserted' = rowcount(table, rows)
  /\ UNCHANGED <<csv, df_cache, variant, phase, req, resp, executed, reachable, conns>>

(***************************************************************************)
(* The store-backed service (main_db.py).                                  *)
(***************************************************************************)
DbServing == variant = "store" /\ phase = "serving" /\ Idle

\* lifespan: SELECT 1, then serve; RuntimeError("Database connectivity
\* failed") when the statement raises, and the application does not start
db_lifespan_startup ==
  /\ variant = "store" /\ phase = "init"
  /\ phase' = IF reachable THEN "serving" ELSE "failed"
  /\ UNCHANGED <<csv, df_cache, table, variant, req, resp, executed, reachable, inserted, conns>>

db_lifespan_shutdown ==
  /\ DbServing
  /\ phase' = "stopped"
  /\ UNCHANGED <<csv, df_cache, table, variant, req, resp, executed, reachable, inserted, conns>>

db_root ==
  /\ DbServing
  /\ Answer(Request("root"), <<[limit |-> <<>>]>>,
            Ok(<<[status |-> "ok", total_bookings |-> Len(table)]>>))

db_get_booking_status_breakdown ==
  /\ DbServing
  /\ \E a \in Answers(StatusBreakdownQuery(table)) :
       Answer(Request("booking-status-breakdown"), <<[limit |-> <<>>]>>, a)

db_get_bookings_per_hour ==
  /\ DbServing
  /\ \E a \in Answers(BookingsPerHourQuery(table)) :
       Answer(Request("bookings-per-hour"), <<[limit |-> <<>>]>>, a)

db_get_bookings_per_weekday ==
  /\ DbServing
  /\ \E a \in Answers(BookingsPerWeekdayQuery(table)) :
       Answer(Request("bookings-per-weekday"), <<[limit |-> <<>>]>>, a)

db_get_bookings_per_month ==
  /\ DbServing
  /\ \E a \in Answers(BookingsPerMonthQuery(table)) :
       Answer(Request("bookings-per-month"), <<[limit |-> <<>>]>>, a)

db_get_peak_hours ==
  /\ DbServing
  /\ \E limit \in LimitInputs(PEAK_MIN, PEAK_MAX) :
       LET r == [Request("peak-hours") EXCEPT !.limit = limit]
           n == EffectiveLimit(limit, PEAK_DEFAULT)
       IN IF ~ValidLimit(limit, PEAK_MIN, PEAK_MAX)
          THEN Answer(r, <<>>, Rejected)
          ELSE \E a \in Answers(PeakHoursQuery(table, n)) :
                 Answer(r, <<[limit |-> <<n>>]>>, a)

db_get_vehicle_type_stats ==
  /\ DbServing
  /\ \E a \in Answers(VehicleTypeQuery(table)) :
       Answer(Request("vehicle-types"), <<[limit |-> <<>>]>>, a)

db_get_payment_method_stats ==
  /\ DbServing
  /\ \E a \in Answers(PaymentMethodQuery(table)) :
       Answer(Request("payment-methods"), <<[limit |-> <<>>]>>, a)

db_get_top_customers ==
  /\ DbServing
  /\ \E limit \in LimitInputs(TOP_MIN, TOP_MAX) :
       LET r == [Request("top-customers") EXCEPT !.limit = limit]
           n == EffectiveLimit(limit, TOP_DEFAULT)
       IN IF ~ValidLimit(limit, TOP_MIN, TOP_MAX)
          THEN Answer(r, <<>>, Rejected)
          ELSE \E a \in Answers(TopCustomersQuery(table, n)) :
                 Answer(r, <<[limit |-> <<n>>]>>, a)

db_get_top_customer_payment_methods ==
  /\ DbServing
  /\ \E rows \in TopCustomerPaymentQuery(table) :
       Answer(Request("top-customer-payment-methods"), <<[limit |-> <<>>]>>,
              ShapePaymentRows(rows))

\* the clauses joined by OR
DbWhereAny(status, vehicle_type, customer_id, r) ==
  \/ status = <<>> /\ vehicle_type = <<>> /\ customer_id = <<>>
  \/ status # <<>> /\ r.booking_status = status[1]
  \/ vehicle_type # <<>> /\ r.vehicle_type = vehicle_type[1]
  \/ customer_id # <<>> /\ r.customer_id = customer_id[1]

\* the WHERE clause built from the supplied filters, joined by AND
DbWhere(status, vehicle_type, customer_id, r) ==
  /\ Supplied(status, "") => r.booking_status = status[1]
  /\ Supplied(vehicle_type, "") => r.vehicle_type = vehicle_type[1]
  /\ Supplied(customer_id, <<>>) => r.customer_id = customer_id[1]

\* the order of text: character by character, a prefix first
CharOrder == <<Quote, "1", "2", "3", "4", "5", "B", "C", "E", "N", "O", "P">>
CharRank(c) == CHOOSE k \in DOMAIN CharOrder : CharOrder[k] = c
RECURSIVE TextLess(_, _)
TextLess(a, b) ==
  IF b = <<>> THEN FALSE
  ELSE IF a = <<>> THEN TRUE
  ELSE IF Head(a) # Head(b) THEN CharRank(Head(a)) < CharRank(Head(b))
  ELSE TextLess(Tail(a), Tail(b))

DateKey(d) == (d.y * 100 + d.m) * 100 + d.d
TimeKey(t) == t.h * 60 + t.mi

\* ORDER BY date, time, booking_id
ListOrderLe(a, b) ==
  \/ DateKey(a.date) < DateKey(b.date)
  \/ /\ a.date = b.date
     /\ \/ TimeKey(a.time) < TimeKey(b.time)
        \/ /\ a.time = b.time
           /\ (a.booking_id = b.booking_id \/ TextLess(a.booking_id, b.booking_id))

OrderRows(rel) ==
  {[k \in DOMAIN rel |-> rel[p[k]]]
     : p \in {q \in Perms(DOMAIN rel)
               : \A k \in 1..(Len(rel) - 1) : ListOrderLe(rel[q[k]], rel[q[k + 1]])}}

db_get_bookings ==
  /\ DbServing
  /\ \E limit \in LimitInputs(LIST_MIN, LIST_MAX), status \in StatusInputs,
        vehicle_type \in VehicleInputs, customer_id \in CustomerInputs :
       LET r == [Request("bookings") EXCEPT !.limit = limit, !.status = status,
                   !.vehicle_type = vehicle_type, !.customer_id = customer_id]
           n == EffectiveLimit(limit, LIST_DEFAULT)
           matching == SelectSeq(table,
                         LAMBDA x : DbWhere(status, vehicle_type, customer_id, x))
       IN IF ~ValidLimit(limit, LIST_MIN, LIST_MAX)
          THEN Answer(r, <<>>, Rejected)
          ELSE \E rows \in OrderRows(matching) :
                 Answer(r, <<[limit |-> <<n>>]>>, ListOk(Take(rows, n), Len(matching)))

\* WHERE booking_id = :booking_id LIMIT 1
DbLookup(tbl, booking_id) ==
  LET rows == SelectSeq(tbl, LAMBDA r : r.booking_id = booking_id)
  IN IF rows = <<>> THEN NotFound ELSE Ok(<<rows[1]>>)

db_get_booking_by_id ==
  /\ DbServing
  /\ \E booking_id \in IdInputs :
       Answer([Request("booking") EXCEPT !.booking_id = <<booking_id>>],
              <<[limit |-> <<>>]>>, DbLookup(table, booking_id))

(***************************************************************************)
(* The routes of the two applications as functions of the request: the     *)
(* answers each service can give to request r over its data.               *)
(***************************************************************************)
FileResponses(r, file, cache) ==
  CASE r.op = "root" ->
         {Ok(<<[status |-> "ok",
                total_bookings |-> IF cache = <<>> THEN 0 ELSE Len(cache[1])]>>)}
    [] r.op = "booking-status-breakdown" ->
         Answers(StatusBreakdownQuery(FileView(file)))
    [] r.op = "bookings-per-hour" ->
         IF ColumnsTyped(file) THEN Answers(BookingsPerHourQuery(FileView(file)))
                               ELSE {Failed}
    [] r.op = "bookings-per-weekday" ->
         IF ColumnsTyped(file) THEN Answers(BookingsPerWeekdayQuery(FileView(file)))
                               ELSE {Failed}
    [] r.op = "bookings-per-month" ->
         IF ColumnsTyped(file) THEN Answers(BookingsPerMonthQuery(FileView(file)))
                               ELSE {Failed}
    [] r.op = "peak-hours" ->
         IF ~ValidLimit(r.limit, PEAK_MIN, PEAK_MAX) THEN {Rejected}
         ELSE IF ColumnsTyped(file)
         THEN Answers(PeakHoursQuery(FileView(file), EffectiveLimit(r.limit, PEAK_DEFAULT)))
         ELSE {Failed}
    [] r.op = "vehicle-types" -> Answers(VehicleTypeQuery(FileView(file)))
    [] r.op = "payment-methods" -> Answers(PaymentMethodQuery(FileView(file)))
    [] r.op = "top-customers" ->
         IF ~ValidLimit(r.limit, TOP_MIN, TOP_MAX) THEN {Rejected}
         ELSE Answers(TopCustomersQuery(FileView(file), EffectiveLimit(r.limit, TOP_DEFAULT)))
    [] r.op = "top-customer-payment-methods" ->
         {ShapePaymentRows(rows) : rows \in TopCustomerPaymentQuery(FileView(file))}
    [] r.op = "bookings" ->
         IF ~ValidLimit(r.limit, LIST_MIN, LIST_MAX) THEN {Rejected}
         ELSE IF cache = <<>> THEN {Failed}
         ELSE LET filtered_df == FileFilter(cache[1], r.status, r.vehicle_type, r.customer_id)
              IN {ListOk(SerializeAll(Take(filtered_df, EffectiveLimit(r.limit, LIST_DEFAULT))),
                         Len(filtered_df))}
    [] r.op = "booking" ->
         IF cache = <<>> THEN {Failed} ELSE {FileLookup(cache[1], r.booking_id[1])}

DbResponses(r, tbl) ==
  CASE r.op = "root" -> {Ok(<<[status |-> "ok", total_bookings |-> Len(tbl)]>>)}
    [] r.op = "booking-status-breakdown" -> Answers(StatusBreakdownQuery(tbl))
    [] r.op = "bookings-per-hour" -> Answers(BookingsPerHourQuery(tbl))
    [] r.op = "bookings-per-weekday" -> Answers(BookingsPerWeekdayQuery(tbl))
    [] r.op = "bookings-per-month" -> Answers(BookingsPerMonthQuery(tbl))
    [] r.op = "peak-hours" ->
         IF ~ValidLimit(r.limit, PEAK_MIN, PEAK_MAX) THEN {Rejected}
         ELSE Answers(PeakHoursQuery(tbl, EffectiveLimit(r.limit, PEAK_DEFAULT)))
    [] r.op = "vehicle-types" -> Answers(VehicleTypeQuery(tbl))
    [] r.op = "payment-methods" -> Answers(PaymentMethodQuery(tbl))
    [] r.op = "top-customers" ->
         IF ~ValidLimit(r.limit, TOP_MIN, TOP_MAX) THEN {Rejected}
         ELSE Answers(TopCustomersQuery(tbl, EffectiveLimit(r.limit, TOP_DEFAULT)))
    [] r.op = "top-customer-payment-methods" ->
         {ShapePaymentRows(rows) : rows \in TopCustomerPaymentQuery(tbl)}
    [] r.op = "bookings" ->
         IF ~ValidLimit(r.limit, LIST_MIN, LIST_MAX) THEN {Rejected}
         ELSE LET matching == SelectSeq(tbl,
                                LAMBDA x : DbWhere(r.status, r.vehicle_type, r.customer_id, x))
              IN {ListOk(Take(rows, EffectiveLimit(r.limit, LIST_DEFAULT)), Len(matching))
                    : rows \in OrderRows(matching)}
    [] r.op = "booking" -> {DbLookup(tbl, r.booking_id[1])}

(***************************************************************************)
(* Connections.  A query of main_db.py runs in fetch_all: "with            *)
(* engine.connect() as conn" takes a connection of the pool, conn.execute  *)
(* runs the statement and the with block gives the connection back, also   *)
(* when the statement raises.  A query of main.py runs in                  *)
(* execute_duckdb_query: duckdb.connect(), conn.execute, and conn.close()  *)
(* in the finally clause.  Requests run concurrently, one per worker.      *)
(***************************************************************************)
Workers == 1..MaxRequests

NoConn == [op |-> "none", valid |-> TRUE, pc |-> "idle", held |-> 0,
           acquired |-> 0, queries |-> 0, raised |-> FALSE]

\* the requests followed, and whether their limit passes Query(ge=, le=)
PoolOps == {"root", "vehicle-types", "peak-hours", "bookings", "booking"}
Limited == {"peak-hours", "bookings"}

\* the calls of fetch_all / execute_duckdb_query a handler makes
Queries(v, op, valid) ==
  IF ~valid THEN 0
  ELSE IF v = "file"
  THEN (IF op \in {"vehicle-types", "peak-hours"} THEN 1 ELSE 0)
  ELSE (IF op = "bookings" THEN 2 ELSE 1)

PoolFrame ==
  UNCHANGED <<csv, df_cache, table, variant, phase, req, resp, executed,
              reachable, inserted>>

\* a request reaches its handler (or is rejected before it)
pool_request(w) ==
  /\ phase = "serving" /\ conns[w].pc = "idle"
  /\ \E op \in PoolOps, valid \in BOOLEAN :
       /\ valid \/ op \in Limited
       /\ conns' = [conns EXCEPT ![w] =
                      [op |-> op, valid |-> valid, pc |-> "handler", held |-> 0,
                       acquired |-> 0, queries |-> Queries(variant, op, valid),
                       raised |-> FALSE]]
  /\ PoolFrame

\* engine.connect() / duckdb.connect()
pool_connect(w) ==
  /\ conns[w].pc = "handler" /\ conns[w].queries > 0
  /\ conns' = [conns EXCEPT ![w].pc = "connected", ![w].held = @ + 1,
                            ![w].acquired = @ + 1]
  /\ PoolFrame

\* conn.execute(...): the statement returns its rows or raises
pool_execute(w) ==
  /\ conns[w].pc = "connected"
  /\ \E raises \in BOOLEAN :
       conns' = [conns EXCEPT ![w].pc = "executed", ![w].raised = raises]
  /\ PoolFrame

\* the connection is given back only when the statement returned
pool_close_on_return(w) ==
  /\ conns[w].pc = "executed"
  /\ conns' = [conns EXCEPT ![w].pc = "handler",
                            ![w].held = IF conns[w].raised THEN @ ELSE @ - 1,
                            ![w].queries = IF conns[w].raised THEN 0 ELSE @ - 1]
  /\ PoolFrame

\* the end of the with block / the finally clause: the connection is given
\* back; an exception goes on to the handler and no further query is run
pool_close(w) ==
  /\ conns[w].pc = "executed"
  /\ conns' = [conns EXCEPT ![w].pc = "handler", ![w].held = @ - 1,
                            ![w].queries = IF conns[w].raised THEN 0 ELSE @ - 1]
  /\ PoolFrame

\* the handler returns or raises: the request ends
pool_respond(w) ==
  /\ conns[w].pc = "handler" /\ conns[w].queries = 0
  /\ conns' = [conns EXCEPT ![w].pc = "done"]
  /\ PoolFrame

\* the worker takes its next request
pool_next(w) ==
  /\ conns[w].pc = "done"
  /\ conns' = [conns EXCEPT ![w] = NoConn]
  /\ PoolFrame

(***************************************************************************)
(* The system.                                                             *)
(***************************************************************************)
Init ==
  /\ csv \in RecordSets
  /\ variant \in {"file", "store"}
  /\ df_cache = <<>>
  /\ table = <<>>
  /\ phase = "init"
  /\ req = NoReq
  /\ resp = NoResp
  /\ executed = <<>>
  /\ reachable \in BOOLEAN
  /\ inserted = 0
  /\ conns = [w \in Workers |-> NoConn]

FileNext ==
  \/ lifespan_startup
  \/ root
  \/ get_booking_status_breakdown
  \/ get_bookings_per_hour
  \/ get_bookings_per_weekday
  \/ get_bookings_per_month
  \/ get_peak_hours
  \/ get_vehicle_type_stats
  \/ get_payment_method_stats
  \/ get_top_customers
  \/ get_top_customer_payment_methods
  \/ get_bookings
  \/ get_booking_by_id
  \/ lifespan_shutdown

DbNext ==
  \/ etl_main
  \/ db_lifespan_startup
  \/ db_root
  \/ db_get_booking_status_breakdown
  \/ db_get_bookings_per_hour
  \/ db_get_bookings_per_weekday
  \/ db_get_bookings_per_month
  \/ db_get_peak_hours
  \/ db_get_vehicle_type_stats
  \/ db_get_payment_method_stats
  \/ db_get_top_customers
  \/ db_get_top_customer_payment_methods
  \/ db_get_bookings
  \/ db_get_booking_by_id
  \/ db_lifespan_shutdown

Next == FileNext \/ DbNext \/ receive

Spec == Init /\ [][Next]_vars

(***************************************************************************)
(* The bulk load run again and again, the file at CSV_PATH replaced by     *)
(* another export between two runs.                                        *)
(***************************************************************************)
\* exports of up to MaxLoadRows rows about three bookings: B1 with either
\* status, B2, and the unpaid B5
LoadPool == {r \in RowPool : r.booking_id \in {Wrap(B1), Wrap(B2), Wrap(B5)}}
LoadFiles == UNION {[1..n -> LoadPool] : n \in 0..MaxLoadRows}

replace_csv ==
  /\ variant = "store"
  /\ \E f \in LoadFiles : csv' = f
  /\ UNCHANGED <<df_cache, table, variant, phase, req, resp, executed,
                 reachable, inserted, conns>>

LoadInit == Init /\ variant = "store" /\ reachable /\ csv \in LoadFiles

LoadNext == etl_main \/ replace_csv

LoadSpec == LoadInit /\ [][LoadNext]_vars

(***************************************************************************)
(* The requests of MaxRequests workers, step by step through their         *)
(* connections.                                                            *)
(***************************************************************************)
PoolInit == Init /\ csv = <<>>

PoolNext ==
  \/ lifespan_startup
  \/ db_lifespan_startup
  \/ \E w \in Workers :
       \/ pool_request(w)
       \/ pool_connect(w)
       \/ pool_execute(w)
       \/ pool_close(w)
       \/ pool_respond(w)
       \/ pool_next(w)

PoolSpec == PoolInit /\ [][PoolNext]_vars

(***************************************************************************)
(* What the claims speak of: the stored record set of the running variant, *)
(* identifiers after quote-stripping, and the numbers counted from it.     *)
(***************************************************************************)
StoredRows == IF variant = "file" THEN csv ELSE table

CoreId(r) == Replace(r.booking_id)
CoreCustomer(r) == Replace(r.customer_id)

DistinctIds(rows) == {CoreId(rows[i]) : i \in DOMAIN rows}

Answered(op) == req.op = op /\ resp.code = 200

\* the counts of the returned rows, in the order returned
BodyBookings == [i \in DOMAIN resp.body |-> resp.body[i].bookings]
BodyTotalBookings == [i \in DOMAIN resp.body |-> resp.body[i].total_bookings]
BodyUniqueBookings == [i \in DOMAIN resp.body |-> resp.body[i].unique_bookings]

Descending(s) == \A i \in 1..(Len(s) - 1) : s[i] >= s[i + 1]

\* the limit a request asks for, the default when it sends none
AskedLimit(default) == IF req.limit = <<>> THEN default ELSE req.limit[1]

\* a stored record and a returned record are the same record: identifiers
\* compared after quote-stripping, an unrecorded payment in any spelling
SameRecord(a, b) ==
  /\ a.date = b.date /\ a.time = b.time
  /\ CoreId(a) = CoreId(b) /\ CoreCustomer(a) = CoreCustomer(b)
  /\ a.booking_status = b.booking_status /\ a.vehicle_type = b.vehicle_type
  /\ \/ a.payment_method = b.payment_method
     \/ {a.payment_method, b.payment_method} \subseteq {"", Null, NaN}

(***************************************************************************)
(* C1 (as stated): the 'bookings' counts of booking-status-breakdown sum   *)
(* to the number of distinct booking ids of the whole record set, also     *)
(* when an id is stored on several rows with different statuses.           *)
(***************************************************************************)
C1_SumIsDistinctIds ==
  Answered("booking-status-breakdown") =>
    SeqSum(BodyBookings) = Cardinality(DistinctIds(StoredRows))

StatusIdPairs == {<<StoredRows[i].booking_status, CoreId(StoredRows[i])>> : i \in DOMAIN StoredRows}

OneStatusPerId ==
  \A i, j \in DOMAIN StoredRows :
    CoreId(StoredRows[i]) = CoreId(StoredRows[j])
      => StoredRows[i].booking_status = StoredRows[j].booking_status

(***************************************************************************)
(* C1 (amended): the 'bookings' counts of booking-status-breakdown sum to  *)
(* the number of distinct (status, booking id) pairs of the record set;    *)
(* that is the number of distinct booking ids whenever no booking id is    *)
(* stored with two different statuses.                                     *)
(***************************************************************************)
C1_SumIsDistinctPerStatus ==
  Answered("booking-status-breakdown") =>
    /\ SeqSum(BodyBookings) = Cardinality(StatusIdPairs)
    /\ OneStatusPerId =>
         SeqSum(BodyBookings) = Cardinality(DistinctIds(StoredRows))

\* the breakdown of a set that holds one row twice and two statuses
C1_Witness ==
  /\ Answered("booking-status-breakdown")
  /\ OneStatusPerId
  /\ Len(resp.body) = 2
  /\ Len(StoredRows) > Cardinality(DistinctIds(StoredRows))

\* the relation the aggregate queries of the running variant read
Relation == IF variant = "file" THEN FileView(csv) ELSE table

BookingsOfCustomer(c) ==
  Cardinality({CoreId(StoredRows[i])
                 : i \in {j \in DOMAIN StoredRows : CoreCustomer(StoredRows[j]) = c}})

StoredCustomers == {CoreCustomer(StoredRows[i]) : i \in DOMAIN StoredRows}

\* the customers with the maximum distinct-booking count
TopCustomerSet ==
  {c \in StoredCustomers :
     \A d \in StoredCustomers : BookingsOfCustomer(d) <= BookingsOfCustomer(c)}

C2_TopCustomersShape ==
  Answered("top-customers") =>
    /\ Len(resp.body) <= AskedLimit(TOP_DEFAULT)
    /\ Descending(BodyTotalBookings)

(***************************************************************************)
(* C2 (as stated): top-customers(limit=k) returns at most k entries in     *)
(* descending order of count, and whatever top-customers answers for the   *)
(* same record set, its first customer_id is the customer_id on every row  *)
(* of top-customer-payment-methods, also when customers tie for the top.   *)
(***************************************************************************)
C2_FirstTopCustomerIsPaymentCustomer ==
  /\ C2_TopCustomersShape
  /\ Answered("top-customer-payment-methods") =>
       \A k \in {TOP_MIN, TOP_MAX} : \A top \in TopCustomersQuery(Relation, k) :
         \A i \in DOMAIN resp.body :
           top # <<>> /\ resp.body[i].customer_id = top[1].customer_id

(***************************************************************************)
(* C2 (amended): top-customers(limit=k) returns at most k entries in       *)
(* descending order of count and its first entry is a customer with the    *)
(* maximum distinct-booking count; every row of                            *)
(* top-customer-payment-methods carries one customer_id, that of a         *)
(* customer with the maximum count.  The two are the same customer when    *)
(* a single customer has the maximum count; on a tie each query may        *)
(* choose any of the tied customers.                                       *)
(***************************************************************************)
C2_BothChooseAMaximalCustomer ==
  /\ C2_TopCustomersShape
  /\ Answered("top-customers") /\ resp.body # <<>> =>
       /\ resp.body[1].customer_id \in TopCustomerSet
       /\ resp.body[1].total_bookings = BookingsOfCustomer(resp.body[1].customer_id)
  /\ Answered("top-customers") /\ resp.body = <<>> => StoredRows = <<>>
  /\ Answered("top-customer-payment-methods") =>
       \A i \in DOMAIN resp.body :
         /\ resp.body[i].customer_id \in TopCustomerSet
         /\ resp.body[i].customer_id = resp.body[1].customer_id

\* the payment methods of the single top customer among several customers
C2_Witness ==
  /\ Answered("top-customer-payment-methods")
  /\ resp.body # <<>>
  /\ Cardinality(TopCustomerSet) = 1
  /\ Cardinality(StoredCustomers) > 1

\* a stored identifier is asked for, bare or wrapped in one pair of quotes
AsksStoredId ==
  /\ req.op = "booking"
  /\ \E i \in DOMAIN StoredRows :
       req.booking_id[1] \in {CoreId(StoredRows[i]), Wrap(CoreId(StoredRows[i]))}

(***************************************************************************)
(* C3: for a stored booking with identifier X, lookup-by-id returns the    *)
(* record of X both for the identifier X and for the quoted identifier     *)
(* "X", in the file-backed and in the store-backed variant.                *)
(***************************************************************************)
C3_QuotedIdFindsSameRecord ==
  AsksStoredId =>
    /\ resp.code = 200
    /\ Len(resp.body) = 1
    /\ CoreId(resp.body[1]) = Replace(req.booking_id[1])

StatusOnly ==
  /\ req.op = "bookings" /\ resp.code = 200
  /\ req.status # <<>> /\ req.vehicle_type = <<>> /\ req.customer_id = <<>>

StoredWithStatus == SelectSeq(StoredRows, LAMBDA r : r.booking_status = req.status[1])

OnlyStatusReturned == \A i \in DOMAIN resp.body : resp.body[i].booking_status = req.status[1]

(***************************************************************************)
(* C4 (as stated): bookings(status=S) returns only records of status S     *)
(* and total_found is the number of distinct booking ids among the         *)
(* records of status S, not the number of rows.                            *)
(***************************************************************************)
C4_TotalFoundIsDistinctIds ==
  StatusOnly =>
    /\ OnlyStatusReturned
    /\ resp.total_found = Cardinality(DistinctIds(StoredWithStatus))

(***************************************************************************)
(* C4 (amended): bookings(status=S) returns only records of status S and   *)
(* total_found is the number of stored rows of status S; that is the       *)
(* number of distinct booking ids among them when no booking id is stored  *)
(* twice with status S (always so in the store-backed variant).            *)
(***************************************************************************)
C4_TotalFoundIsRowCount ==
  StatusOnly =>
    /\ OnlyStatusReturned
    /\ resp.total_found = Len(StoredWithStatus)
    /\ (variant = "store"
          \/ Cardinality(DistinctIds(StoredWithStatus)) = Len(StoredWithStatus))
         => resp.total_found = Cardinality(DistinctIds(StoredWithStatus))

\* a status filter over a file that stores one booking id on two rows of
\* that status, beside a row of another status
C4_Witness ==
  /\ StatusOnly
  /\ resp.total_found = 2
  /\ Cardinality(DistinctIds(StoredWithStatus)) = 1
  /\ Len(StoredRows) = 3

\* the record satisfies every filter the request supplies
Matches(r) ==
  /\ req.status # <<>> => r.booking_status = req.status[1]
  /\ req.vehicle_type # <<>> => r.vehicle_type = req.vehicle_type[1]
  /\ req.customer_id # <<>> => CoreCustomer(r) = req.customer_id[1]

Occurrences(rows, x) == Cardinality({j \in DOMAIN rows : SameRecord(rows[j], x)})

(***************************************************************************)
(* C5: the list operation with a limit in 1..1000 (or none: 100) and any   *)
(* combination of the filters status, vehicle_type, customer_id succeeds   *)
(* and returns records that satisfy all supplied filters, each a stored    *)
(* record and no more often than stored; total_found is the number of      *)
(* stored records matching all filters, returned is the length of the      *)
(* list and min(limit, total_found); a customer_id given without quotes    *)
(* matches that customer's records.                                        *)
(***************************************************************************)
C5_ListIsFilteredThenTruncated ==
  req.op = "bookings" /\ (req.limit = <<>> \/ req.limit[1] \in LIST_MIN..LIST_MAX) =>
    LET matching == SelectSeq(StoredRows, Matches)
    IN /\ resp.code = 200
       /\ resp.total_found = Len(matching)
       /\ resp.returned = Len(resp.body)
       /\ resp.returned = Min(AskedLimit(LIST_DEFAULT), resp.total_found)
       /\ \A i \in DOMAIN resp.body :
            /\ Matches(resp.body[i])
            /\ Occurrences(resp.body, resp.body[i]) <= Occurrences(matching, resp.body[i])

\* all three filters at once, a stored row that fails one of them, and a
\* limit that cuts the list
C5_Witness ==
  /\ Answered("bookings")
  /\ req.status # <<>> /\ req.vehicle_type # <<>> /\ req.customer_id # <<>>
  /\ 0 < resp.returned /\ resp.returned < resp.total_found
  /\ resp.total_found < Len(StoredRows)

Aggregates ==
  {"booking-status-breakdown", "bookings-per-hour", "bookings-per-weekday",
   "bookings-per-month", "peak-hours", "vehicle-types", "payment-methods",
   "top-customers", "top-customer-payment-methods"}

\* the request carries no limit, or one inside lo..hi
LimitWithin(lo, hi) == req.limit = <<>> \/ req.limit[1] \in lo..hi

AggregateAsked ==
  /\ req.op \in Aggregates
  /\ req.op = "peak-hours" => LimitWithin(1, 24)
  /\ req.op = "top-customers" => LimitWithin(1, 100)

(***************************************************************************)
(* C6: on an empty record set every aggregate operation answers with an    *)
(* empty list, never with an error.                                        *)
(***************************************************************************)
C6_EmptySetGivesEmptyList ==
  AggregateAsked /\ StoredRows = <<>> => resp.code = 200 /\ resp.body = <<>>

(***************************************************************************)
(* C7: payment-method-stats and top-customer-payment-methods succeed and   *)
(* return no row whose payment method is null or empty, whatever the       *)
(* record set, also when the top customer has an unpaid booking.           *)
(***************************************************************************)
C7_NoGroupWithoutPaymentMethod ==
  req.op \in {"payment-methods", "top-customer-payment-methods"} =>
    /\ resp.code = 200
    /\ \A i \in DOMAIN resp.body : resp.body[i].payment_method \notin {Null, NaN, ""}

HourCount(h) ==
  Cardinality({CoreId(StoredRows[i])
                 : i \in {j \in DOMAIN StoredRows : StoredRows[j].time.h = h}})

StoredHours == {StoredRows[i].time.h : i \in DOMAIN StoredRows}

\* the rows are the top hours: as many as asked for or as there are, in
\* descending order of count, each with its hour's distinct-booking count,
\* no hour twice, no hour left out that has more bookings than one returned
PeakHoursShape ==
  /\ Len(resp.body) = Min(AskedLimit(5), Cardinality(StoredHours))
  /\ Descending(BodyUniqueBookings)
  /\ \A i \in DOMAIN resp.body :
       /\ resp.body[i].hour \in StoredHours
       /\ resp.body[i].unique_bookings = HourCount(resp.body[i].hour)
       /\ \A j \in DOMAIN resp.body : resp.body[j].hour = resp.body[i].hour => j = i
       /\ \A h \in StoredHours :
            HourCount(h) > resp.body[i].unique_bookings
              => \E j \in DOMAIN resp.body : resp.body[j].hour = h

(***************************************************************************)
(* C8: for every record set and every limit in 1..24 peak-hours returns    *)
(* min(limit, number of distinct hours) rows in descending order of count, *)
(* each an (hour, count) pair of bookings-per-hour, and leaves out no hour *)
(* with a larger count than one it returns.                                *)
(***************************************************************************)
C8_PeakHoursAreTheTopHours ==
  req.op = "peak-hours" /\ LimitWithin(1, 24) => resp.code = 200 /\ PeakHoursShape

(***************************************************************************)
(* C9: lookup-by-id answers 404 with no record when no stored record has   *)
(* the identifier, and otherwise one record: the first in storage order    *)
(* of those that have it.                                                  *)
(***************************************************************************)
C9_OneRecordOrNotFound ==
  req.op = "booking" =>
    LET hits == SelectSeq(StoredRows, LAMBDA r : CoreId(r) = req.booking_id[1])
    IN IF hits = <<>>
       THEN resp.code = 404 /\ resp.body = <<>>
       ELSE /\ resp.code = 200
            /\ Len(resp.body) = 1
            /\ SameRecord(resp.body[1], hits[1])

\* a lookup of an identifier stored on two rows that differ
C9_Witness ==
  /\ Answered("booking")
  /\ \E i, j \in DOMAIN StoredRows :
       /\ i < j
       /\ CoreId(StoredRows[i]) = req.booking_id[1]
       /\ CoreId(StoredRows[j]) = req.booking_id[1]
       /\ ~SameRecord(StoredRows[i], StoredRows[j])

\* what a request with bounds lo..hi and default dflt must lead to
LimitHonoured(lo, hi, dflt) ==
  IF req.limit = <<>>
  THEN executed = <<[limit |-> <<dflt>>]>>
  ELSE IF req.limit[1] \in lo..hi
  THEN executed = <<[limit |-> req.limit]>>
  ELSE resp.code = 422 /\ resp.body = <<>> /\ executed = <<>>

(***************************************************************************)
(* C10: a limit outside its bounds (peak-hours 1..24, top-customers        *)
(* 1..100, bookings 1..1000) is answered with a rejection and no query is  *)
(* executed; a limit inside the bounds is the limit of the query           *)
(* executed; with no limit the query runs with 5, 10 and 100.              *)
(***************************************************************************)
C10_LimitsAreValidatedNotClamped ==
  /\ req.op = "peak-hours" => LimitHonoured(1, 24, 5)
  /\ req.op = "top-customers" => LimitHonoured(1, 100, 10)
  /\ req.op = "bookings" => LimitHonoured(1, 1000, 100)

\* a list request over stored records with a limit just above the bound
C10_Witness ==
  /\ req.op = "bookings"
  /\ req.limit = <<1001>>
  /\ resp.code = 422
  /\ StoredRows # <<>>

\* the answers the running variant can give to the request in hand
Responses ==
  IF variant = "file" THEN FileResponses(req, csv, df_cache) ELSE DbResponses(req, table)

\* the answers to the request in hand once stored row i has been added again:
\* appended to the file, or sent through the load into the table
ResponsesWithDuplicate(i) ==
  IF variant = "file"
  THEN FileResponses(req, Append(csv, csv[i]), df_cache)
  ELSE DbResponses(req, upsert_rows(table, <<table[i]>>))

\* stored row r belongs to the group of result row g
InGroup(op, g, r) ==
  CASE op = "booking-status-breakdown" -> r.booking_status = g.booking_status
    [] op \in {"bookings-per-hour", "peak-hours"} -> r.time.h = g.hour
    [] op = "bookings-per-weekday" -> Dow(r.date) = g.weekday_num
    [] op = "bookings-per-month" -> YearMonth(r.date) = g.month
    [] op = "vehicle-types" -> r.vehicle_type = g.vehicle_type
    [] op = "payment-methods" -> r.payment_method = g.payment_method
    [] op = "top-customers" -> CoreCustomer(r) = g.customer_id
    [] op = "top-customer-payment-methods" ->
         CoreCustomer(r) = g.customer_id /\ r.payment_method = g.payment_method

GroupRows(op, g) == SelectSeq(StoredRows, LAMBDA r : InGroup(op, g, r))

ReportedCount(op, g) ==
  CASE op \in {"booking-status-breakdown", "bookings-per-month"} -> g.bookings
    [] op \in {"bookings-per-hour", "bookings-per-weekday", "peak-hours"} -> g.unique_bookings
    [] op \in {"vehicle-types", "payment-methods", "top-customers"} -> g.total_bookings
    [] op = "top-customer-payment-methods" -> g.bookings_for_method

(***************************************************************************)
(* C11: every count an aggregate reports is the number of distinct         *)
(* booking ids, after quote-stripping, of the stored rows of its group,    *)
(* and adding a duplicate of a stored row leaves the answers of every      *)
(* aggregate operation as they are.                                        *)
(***************************************************************************)
C11_CountsAreDistinctIds ==
  req.op \in Aggregates =>
    /\ resp.code = 200 =>
         \A k \in DOMAIN resp.body :
           ReportedCount(req.op, resp.body[k])
             = Cardinality(DistinctIds(GroupRows(req.op, resp.body[k])))
    /\ resp \in Responses
    /\ \A i \in DOMAIN StoredRows : ResponsesWithDuplicate(i) = Responses

\* an aggregate over a file that holds one row twice: a group of two rows
\* is reported as one booking
C11_Witness ==
  /\ Answered("vehicle-types")
  /\ \E i, j \in DOMAIN StoredRows : i < j /\ StoredRows[i] = StoredRows[j]
  /\ \E k \in DOMAIN resp.body :
       /\ resp.body[k].total_bookings = 1
       /\ Len(GroupRows(req.op, resp.body[k])) = 2

UniqueIds(rows) ==
  \A i, j \in DOMAIN rows : CoreId(rows[i]) = CoreId(rows[j]) => i = j

\* the table after the load of file f into an empty table
Loaded(f) == upsert_rows(<<>>, normalize_dataframe(read_csv(f)))

\* the same source record set behind both variants: the file with unique
\* ids, cached by the file service, loaded into the table of the store
SharedSource ==
  /\ UniqueIds(csv)
  /\ variant = "file" => df_cache = <<read_csv(csv)>>
  /\ variant = "store" => table = Loaded(csv)

\* the answers of the other variant to the request in hand
OtherResponses ==
  IF variant = "file" THEN DbResponses(req, Loaded(csv))
                      ELSE FileResponses(req, csv, <<read_csv(csv)>>)

\* two answers are the same result: records compared after quote-stripping,
\* an unrecorded payment method in any spelling
SameAnswer(a, b) ==
  /\ a.code = b.code
  /\ Len(a.body) = Len(b.body)
  /\ IF req.op \in {"bookings", "booking"}
     THEN /\ \A k \in DOMAIN a.body : SameRecord(a.body[k], b.body[k])
          /\ (req.op = "bookings" /\ a.code = 200) => a.total_found = b.total_found
     ELSE a.body = b.body

(***************************************************************************)
(* C12: over one source record set with unique booking ids (quoted in the  *)
(* file, loaded into the store through the normalization step) every       *)
(* request gets the same result from the file-backed and from the          *)
(* store-backed variant: the same code, the same rows in the same order    *)
(* (for the list operation also the same total_found), identifiers         *)
(* compared after quote-stripping and an empty payment method equal to a   *)
(* null one.                                                               *)
(***************************************************************************)
C12_VariantsAnswerAlike ==
  ~Idle /\ SharedSource => \E other \in OtherResponses : SameAnswer(resp, other)

(***************************************************************************)
(* C13: in the file-backed variant the cache is written by the load at     *)
(* startup and by nothing else: no request, answered or failed, changes    *)
(* it; no step changes the records of the file, and the write-back at      *)
(* shutdown writes the records that were loaded, so the file after stop    *)
(* holds the record set it held at start.                                  *)
(***************************************************************************)
C13_CacheWrittenOnceFileUnchanged ==
  [][variant = "file" =>
       /\ phase = "init" /\ phase' = "serving" => df_cache' = <<read_csv(csv)>>
       /\ phase # "init" => df_cache' = df_cache
       /\ phase = "serving" /\ phase' = "stopped" =>
            /\ csv' = to_csv(df_cache[1])
            /\ read_csv(csv') = df_cache[1]
       /\ csv' = csv]_vars

\* the service stopped after its write-back, over a file with an unpaid
\* booking (read as NaN, written back as an empty field) among others
C13_Witness ==
  /\ variant = "file" /\ phase = "stopped"
  /\ df_cache = <<read_csv(csv)>>
  /\ Len(csv) = MaxRows
  /\ \E i \in DOMAIN csv : csv[i].payment_method = ""

\* the stored records that satisfy the filters of the request, in the
\* orders "date, then time, then booking_id, ascending" allows
MatchingInOrder == OrderRows(SelectSeq(StoredRows, Matches))

(***************************************************************************)
(* C14: the list operation returns its records in ascending order of       *)
(* date, then time, then booking_id, and the truncation keeps the first    *)
(* 'limit' records of that order, in both variants and for every storage   *)
(* order of the records.                                                   *)
(***************************************************************************)
C14_ListInDateTimeIdOrder ==
  Answered("bookings") =>
    \E o \in MatchingInOrder :
      /\ Len(resp.body) = Min(AskedLimit(LIST_DEFAULT), Len(o))
      /\ \A k \in DOMAIN resp.body : SameRecord(resp.body[k], o[k])

(***************************************************************************)
(* C15: a request is answered with a success only by a service whose       *)
(* startup completed: the file was reachable and loaded into the cache     *)
(* (file variant), the connectivity check passed (store variant).  When    *)
(* the file or the store is unreachable at startup the service does not    *)
(* start and answers no request at all.                                    *)
(***************************************************************************)
C15_NoSuccessWithoutStartup ==
  /\ resp.code = 200 =>
       /\ phase = "serving" /\ reachable
       /\ variant = "file" => df_cache = <<read_csv(csv)>>
  /\ ~reachable => phase \in {"init", "failed"} /\ Idle /\ resp = NoResp
  /\ phase = "failed" => ~reachable /\ df_cache = <<>>

\* the startup over an unreachable, non-empty file has failed
C15_Witness ==
  /\ ~reachable /\ phase = "failed"
  /\ variant = "file" /\ csv # <<>>

\* no booking_id on two rows of the table
UniqueBookingIds(tbl) ==
  \A i, j \in DOMAIN tbl : tbl[i].booking_id = tbl[j].booking_id => i = j

\* the rows the load reads from the file
FileRows == normalize_dataframe(read_csv(csv))

(***************************************************************************)
(* C16: after any sequence of bulk loads booking_id is unique in the       *)
(* table.  A load leaves every existing row as it is, adds the first row   *)
(* of each booking_id that the table does not hold and skips every other   *)
(* row; the count it returns is the number of rows it added; loading the   *)
(* same file again adds no row and returns 0.                              *)
(***************************************************************************)
C16_LoadKeepsIdsUnique ==
  [][csv' = csv =>
       /\ UniqueBookingIds(table')
       /\ Len(table') >= Len(table) /\ SubSeq(table', 1, Len(table)) = table
       /\ inserted' = Len(table') - Len(table)
       /\ \A k \in (Len(table) + 1)..Len(table') :
            \E i \in DOMAIN FileRows :
              /\ table'[k] = FileRows[i]
              /\ \A j \in 1..(i - 1) : FileRows[j].booking_id # FileRows[i].booking_id
       /\ \A i \in DOMAIN FileRows :
            \E k \in DOMAIN table' : table'[k].booking_id = FileRows[i].booking_id
       /\ upsert_rows(table', FileRows) = table'
       /\ rowcount(table', FileRows) = 0]_vars

\* a load of two rows into a table that holds one of the two ids with
\* another status: one row added, the stored row kept
C16_Witness ==
  /\ inserted = 1 /\ Len(csv) = 2 /\ Len(table) >= 2
  /\ upsert_rows(table, FileRows) = table
  /\ \E i \in DOMAIN FileRows, k \in DOMAIN table :
       /\ FileRows[i].booking_id = table[k].booking_id
       /\ FileRows[i].booking_status # table[k].booking_status

\* every request has ended
AllEnded == \A w \in Workers : conns[w].pc \in {"idle", "done"}

Ended(w) == conns[w].pc = "done"

====
